---- MODULE Spec2Model ----
(***************************************************************************)
(* A model of the weather tool get_weather(city) of agent/agent.py.        *)
(*                                                                         *)
(* One invocation is a chain of steps split at its two blocking network    *)
(* calls: Call issues the geocoding request (line 111), GeoResponse runs   *)
(* lines 111-127 on the outcome of that request, ForecastResponse runs     *)
(* lines 127-167 on the outcome of the forecast request, and Finish ends   *)
(* the invocation (its locals are dropped).                                *)
(*                                                                         *)
(* Text is a sequence of tokens, so that an f-string is a concatenation    *)
(* and "contains" is a sub-sequence test.  The literals of the source are  *)
(* Japanese; the module is ASCII, so every literal is written as its       *)
(* English gloss: equal literals have equal glosses, different literals    *)
(* different ones.                                                         *)
(***************************************************************************)
EXTENDS Integers, Sequences, FiniteSets, TLC

VARIABLES
    pc,            \* "idle" | "geocoding" | "forecast" | "returned" | "raised"
    city,          \* the argument of the invocation
    geo_url,       \* line 110
    res,           \* <<>> or <<the outcome of the geocoding request>>
    weather_url,   \* <<>> until line 121 builds it
    resp,          \* <<>> or <<the outcome of the forecast request>>
    ret,           \* <<>> or <<what the invocation ended with>>
    geoCalls,      \* geocoding requests issued by this invocation
    weatherCalls,  \* forecast requests issued by this invocation
    later,         \* invocations finished since one was remembered
    memo,          \* <<>> or <<a remembered earlier invocation>>
    jsonError      \* base class of the JSON decode error of the installed requests

vars == <<pc, city, geo_url, res, weather_url, resp, ret, geoCalls,
          weatherCalls, later, memo, jsonError>>

(***************************************************************************)
(* Bounds.                                                                 *)
(***************************************************************************)
MaxCityLen == 2
MaxCandidates == 2
MaxCode == 100
MaxLater == 3

(***************************************************************************)
(* JSON values, as far as the tool looks at them.  v is tenths for a       *)
(* float (215 is 21.5); "str" is the string "rain", "list" the list [1];   *)
(* "absent" marks a key the object does not hold.                          *)
(***************************************************************************)
JInt(n) == [t |-> "int", v |-> n]
JFloat(tenths) == [t |-> "float", v |-> tenths]
JStr == [t |-> "str", v |-> 0]
JList == [t |-> "list", v |-> 0]
None == [t |-> "null", v |-> 0]
Absent == [t |-> "absent", v |-> 0]

\* dict.get(key): None when the key is absent.
Get(value) == IF value.t = "absent" THEN None ELSE value

DigitChar(d) == <<"0", "1", "2", "3", "4", "5", "6", "7", "8", "9">>[d + 1]

RECURSIVE Digits(_)
Digits(n) == IF n < 10 THEN <<DigitChar(n)>>
             ELSE Digits(n \div 10) \o <<DigitChar(n % 10)>>

Abs(n) == IF n < 0 THEN -n ELSE n
Sign(n) == IF n < 0 THEN <<"-">> ELSE <<>>

\* What an f-string writes for a value: str(value).
PyStr(value) ==
    CASE value.t = "int" -> Sign(value.v) \o Digits(Abs(value.v))
      [] value.t = "float" -> Sign(value.v) \o Digits(Abs(value.v) \div 10)
                              \o <<".">> \o Digits(Abs(value.v) % 10)
      [] value.t = "str" -> <<"rain">>
      [] value.t = "list" -> <<"[1]">>
      [] OTHER -> <<"None">>

Contains(text, part) ==
    \E i \in 1..(Len(text) - Len(part) + 1) :
        SubSeq(text, i, i + Len(part) - 1) = part

(***************************************************************************)
(* What the two services can answer.  An outcome is a transport failure    *)
(* (no response) or a response with an HTTP status and a body.             *)
(***************************************************************************)
Lats == {JFloat(357), JFloat(347)}
Lons == {JFloat(1397)}
Candidates == [latitude : Lats \cup {Absent}, longitude : Lons \cup {Absent}]

CandidateLists == UNION {[1..n -> Candidates] : n \in 0..MaxCandidates}

Results(kind, items) == [kind |-> kind, items |-> items]
GeoBody(kind, results) == [kind |-> kind, results |-> results]
NoResults == Results("absent", <<>>)
GeoObjects == {GeoBody("object", Results(k, <<>>)) : k \in {"absent", "null", "dict"}}
              \cup {GeoBody("object", Results("list", l)) : l \in CandidateLists}
GeoBodies == {GeoBody("not_json", NoResults), GeoBody("list", NoResults)} \cup GeoObjects
OneCandidate == GeoBody("object", Results("list",
                    <<[latitude |-> JFloat(357), longitude |-> JFloat(1397)]>>))

Outcome(transport, status, body) ==
    [transport |-> transport, status |-> status, body |-> body]

GeoOutcomes ==
    {Outcome(t, 0, GeoBody("not_json", NoResults)) : t \in {"timeout", "connection_error"}}
    \cup {Outcome("ok", 200, b) : b \in GeoBodies}
    \cup {Outcome("ok", 404, b) : b \in {GeoBody("not_json", NoResults),
                                         GeoBody("object", Results("list", <<>>)),
                                         OneCandidate}}

Temps == {Absent, JFloat(215), JInt(-3)}
WeatherCodes == {JInt(c) : c \in (-1)..MaxCode}
                \cup {Absent, JFloat(10), JFloat(15), JStr, JList}

Current(kind, temperature, weathercode) ==
    [kind |-> kind, temperature |-> temperature, weathercode |-> weathercode]
ForecastBody(kind, current) == [kind |-> kind, current_weather |-> current]
NoCurrent == Current("absent", Absent, Absent)
Currents == {Current(k, Absent, Absent) : k \in {"absent", "null", "str"}}
            \cup {Current("object", t, c) : t \in Temps, c \in WeatherCodes}
ForecastBodies == {ForecastBody("not_json", NoCurrent), ForecastBody("list", NoCurrent)}
                  \cup {ForecastBody("object", c) : c \in Currents}
Sunny == ForecastBody("object", Current("object", JFloat(215), JInt(1)))

ForecastOutcomes ==
    {Outcome(t, 0, ForecastBody("not_json", NoCurrent)) :
        t \in {"timeout", "connection_error"}}
    \cup {Outcome("ok", 200, b) : b \in ForecastBodies}
    \cup {Outcome("ok", 500, b) : b \in {ForecastBody("not_json", NoCurrent), Sunny}}

Chars == {"a", "b"}
Cities == UNION {[1..n -> Chars] : n \in 0..MaxCityLen}

\* The JSON decode error of requests is a RequestException from 2.27 on and a
\* plain ValueError before; the source pins no version.
JsonErrorBases == {"RequestException", "ValueError"}

(***************************************************************************)
(* The classification table of lines 135-153.                              *)
(***************************************************************************)
code_to_weather ==
       (0 :> "clear sky") @@ (1 :> "sunny") @@ (2 :> "mainly sunny") @@
       (3 :> "cloudy") @@ (4 :> "thin cloud") @@ (5 :> "hazy cloud") @@
       (6 :> "cloudy") @@ (7 :> "thick cloud") @@ (8 :> "rain cloud") @@
       (9 :> "cloudy (thundercloud)") @@ (10 :> "haze") @@ (11 :> "light mist") @@
       (12 :> "fog") @@ (13 :> "thunder (no rain)") @@ (14 :> "light precipitation") @@
       (15 :> "precipitation in the distance") @@ (18 :> "squall") @@ (19 :> "tornado") @@
       (20 :> "drizzle (past hour)") @@ (21 :> "rain (past hour)") @@ (22 :> "snow (past hour)") @@
       (25 :> "rain shower (past hour)") @@ (26 :> "snow shower (past hour)") @@ (27 :> "hail (past hour)") @@
       (29 :> "thunderstorm (past hour)") @@ (30 :> "sandstorm") @@ (31 :> "sandstorm") @@
       (33 :> "light dust") @@ (34 :> "dust") @@ (35 :> "heavy dust") @@
       (40 :> "fog in the distance") @@ (41 :> "fog (patches)") @@ (42 :> "fog (thinning)") @@
       (43 :> "fog (thickening)") @@ (45 :> "fog") @@ (48 :> "rime fog") @@
       (50 :> "light drizzle") @@ (51 :> "drizzle") @@ (53 :> "drizzle") @@
       (55 :> "drizzle") @@ (56 :> "freezing drizzle") @@ (57 :> "heavy freezing drizzle") @@
       (58 :> "drizzle and rain") @@ (59 :> "heavy drizzle and rain") @@ (60 :> "light rain") @@
       (61 :> "rain") @@ (63 :> "rain") @@ (65 :> "rain") @@
       (66 :> "freezing rain") @@ (67 :> "heavy freezing rain") @@ (68 :> "sleet") @@
       (69 :> "heavy sleet") @@ (70 :> "light snow") @@ (71 :> "snow") @@
       (73 :> "snow") @@ (75 :> "snow") @@ (76 :> "fine snow") @@
       (77 :> "snow pellets") @@ (78 :> "snow crystals") @@ (79 :> "ice pellets") @@
       (80 :> "rain shower") @@ (81 :> "rain shower") @@ (82 :> "rain shower") @@
       (83 :> "rain and snow shower") @@ (84 :> "heavy rain and snow shower") @@ (85 :> "snow shower") @@
       (86 :> "heavy snow shower") @@ (87 :> "sleet shower") @@ (88 :> "heavy sleet shower") @@
       (89 :> "hail shower") @@ (90 :> "heavy hail shower") @@ (91 :> "light thunderstorm") @@
       (92 :> "thunderstorm") @@ (93 :> "light thunderstorm with hail") @@ (94 :> "thunderstorm with hail") @@
       (95 :> "thunderstorm") @@ (96 :> "severe thunderstorm") @@ (97 :> "heavy thunderstorm") @@
       (98 :> "thunderstorm with dust") @@ (99 :> "violent thunderstorm")

(***************************************************************************)
(* The literals of the messages.                                           *)
(***************************************************************************)
GeoUrlPrefix == "https://geocoding-api.open-meteo.com/v1/search?name="
NotFoundPrefix == "Sorry, the city name '"
NotFoundSuffix == "' was not found."
RequestFailedPrefix == "The request to Open-Meteo failed: "
RetrieveFailedPrefix == "Failed to retrieve the weather information: "
ReportPrefix == "The current weather is ["
ReportMiddle == "], and the temperature is "
ReportSuffix == " degrees Celsius."
FallbackPrefix == "unknown (code "
FallbackSuffix == ")"

(***************************************************************************)
(* The pieces of get_weather.                                              *)
(***************************************************************************)
\* Response.ok: raise_for_status() would not raise.
Ok(status) == status < 400

\* The truth value of res.json().get("results") on line 112.
Truthy(results) ==
    CASE results.kind = "list" -> Len(results.items) > 0
      [] results.kind = "dict" -> TRUE
      [] OTHER -> FALSE

Returned(value) == <<[kind |-> "return", value |-> value]>>
Raised(exception) == <<[kind |-> "raise", value |-> [exception |-> exception]]>>

ErrorResultAsReport(message) == [status |-> "error", report |-> message]

ErrorResultCounted(message) ==
    [status |-> "error", error_message |-> message \o Digits(later)]

\* The dict of lines 113-116, 159-162 and 164-167.
ErrorResult(message) == [status |-> "error", error_message |-> message]

\* The dict of line 156.
SuccessResult(report) == [status |-> "success", report |-> report]

NotFoundMessageNoCity(c) == <<NotFoundPrefix, NotFoundSuffix>>

\* The f-string of line 115.
NotFoundMessage(c) == <<NotFoundPrefix>> \o c \o <<NotFoundSuffix>>

\* The f-string of line 110.
GeoUrl(c) == <<GeoUrlPrefix>> \o c

\* The f-string of lines 121-125.
WeatherUrl(lat, lon) ==
    <<"https://api.open-meteo.com/v1/forecast?", "latitude=">> \o PyStr(lat)
    \o <<"&longitude=">> \o PyStr(lon)
    \o <<"&current_weather=true&timezone=Asia/Tokyo">>

TransportError(transport) ==
    IF transport = "timeout" THEN "Timeout" ELSE "ConnectionError"

\* The exception res.json().get("results") raises on line 112, "" when none.
JsonGetError(body) ==
    CASE body.kind = "not_json" -> "JSONDecodeError"
      [] body.kind = "list" -> "AttributeError"
      [] OTHER -> ""

NotFoundBoth(r) == ~Ok(r.status) /\ ~Truthy(r.body.results)

\* The condition of line 112, once .json().get() has not raised.
NotFound(r) == ~Ok(r.status) \/ ~Truthy(r.body.results)

\* The exception res.json()["results"][0] raises on line 117, "" when none.
FirstError(body) ==
    CASE body.kind = "not_json" -> "JSONDecodeError"
      [] body.kind = "list" -> "TypeError"
      [] body.results.kind \in {"absent", "dict"} -> "KeyError"
      [] body.results.kind = "null" -> "TypeError"
      [] Len(body.results.items) = 0 -> "IndexError"
      [] OTHER -> ""

LastCandidate(results) == results.items[Len(results.items)]

\* res.json()["results"][0] of line 117.
FirstCandidate(results) == results.items[1]

Step(next, outcome, url) == [next |-> next, ret |-> outcome, weather_url |-> url]

\* Lines 117-127: the first candidate, its coordinates, the forecast request.
Locate(r) ==
    IF FirstError(r.body) # "" THEN Step("raised", Raised(FirstError(r.body)), <<>>)
    ELSE LET loc == FirstCandidate(r.body.results) IN
         IF loc.latitude.t = "absent" \/ loc.longitude.t = "absent"
         THEN Step("raised", Raised("KeyError"), <<>>)
         ELSE Step("forecast", <<>>, WeatherUrl(loc.latitude, loc.longitude))

\* Lines 111-127 on the outcome r of the geocoding request for city c.
GeoStep(c, r) ==
    IF r.transport # "ok"
    THEN Step("raised", Raised(TransportError(r.transport)), <<>>)
    ELSE IF Ok(r.status) /\ JsonGetError(r.body) # ""
    THEN Step("raised", Raised(JsonGetError(r.body)), <<>>)
    ELSE IF NotFound(r)
    THEN Step("returned", Returned(ErrorResult(NotFoundMessage(c))), <<>>)
    ELSE Locate(r)

\* Dictionary lookup: 1.0 hashes and compares as 1.
TableKey(code) ==
    CASE code.t = "int" -> code.v
      [] code.t = "float" /\ code.v % 10 = 0 -> code.v \div 10
      [] OTHER -> -1

InTable(code) ==
    code.t \in {"int", "float"} /\ TableKey(code) \in DOMAIN code_to_weather

Fallback(code) == <<FallbackPrefix>> \o PyStr(code) \o <<FallbackSuffix>>

DescribeNoDefault(code) ==
    IF InTable(code) THEN <<code_to_weather[TableKey(code)]>> ELSE <<"None">>

DescribeByText(code) == Fallback(code)

\* code_to_weather.get(code, f"...{code}...") of line 154.
Describe(code) ==
    IF InTable(code) THEN <<code_to_weather[TableKey(code)]>> ELSE Fallback(code)

\* The f-string of line 155.
Report(desc, temp) ==
    <<ReportPrefix>> \o desc \o <<ReportMiddle>> \o PyStr(temp) \o <<ReportSuffix>>

\* isinstance(e, requests.RequestException), under the installed requests.
IsRequestException(e, base) ==
    \/ e \in {"Timeout", "ConnectionError", "HTTPError"}
    \/ e = "JSONDecodeError" /\ base = "RequestException"

\* The exception lines 127-155 raise on the outcome r, "" when none.
ForecastError(r) ==
    CASE r.transport # "ok" -> TransportError(r.transport)
      [] ~Ok(r.status) -> "HTTPError"
      [] r.body.kind = "not_json" -> "JSONDecodeError"
      [] r.body.kind = "list" -> "AttributeError"
      [] r.body.current_weather.kind \in {"null", "str"} -> "AttributeError"
      [] r.body.current_weather.weathercode.t = "list" -> "TypeError"
      [] OTHER -> ""

HandleBroadFirst(e, base) == ErrorResult(<<RetrieveFailedPrefix, e>>)

\* The two except clauses of lines 158-167.
Handle(e, base) ==
    IF IsRequestException(e, base)
    THEN ErrorResult(<<RequestFailedPrefix, e>>)
    ELSE ErrorResult(<<RetrieveFailedPrefix, e>>)

\* Lines 127-167 on the outcome r of the forecast request.
ForecastStep(r, base) ==
    IF ForecastError(r) # "" THEN Handle(ForecastError(r), base)
    ELSE LET current == r.body.current_weather
             temp == Get(current.temperature)
             code == Get(current.weathercode)
         IN SuccessResult(Report(Describe(code), temp))

(***************************************************************************)
(* The state machine.                                                      *)
(***************************************************************************)
Init ==
    /\ pc = "idle"
    /\ city = <<>>
    /\ geo_url = <<>>
    /\ res = <<>>
    /\ weather_url = <<>>
    /\ resp = <<>>
    /\ ret = <<>>
    /\ geoCalls = 0
    /\ weatherCalls = 0
    /\ later = 0
    /\ memo = <<>>
    /\ jsonError \in JsonErrorBases

Increment(next, stage) == IF next = stage THEN 1 ELSE 0

\* get_weather(c) is called: lines 110-111, up to the geocoding request.
Call(cities) ==
    /\ pc = "idle"
    /\ later < MaxLater
    /\ \E c \in cities :
        /\ city' = c
        /\ geo_url' = GeoUrl(c)
    /\ pc' = "geocoding"
    /\ geoCalls' = geoCalls + 1
    /\ UNCHANGED <<res, weather_url, resp, ret, weatherCalls, later, memo,
                   jsonError>>

\* The geocoding request ends: lines 111-127, up to the forecast request.
GeoResponse(outcomes) ==
    /\ pc = "geocoding"
    /\ \E r \in outcomes :
        LET s == GeoStep(city, r) IN
        /\ res' = <<r>>
        /\ pc' = s.next
        /\ ret' = s.ret
        /\ weather_url' = s.weather_url
        /\ geoCalls' = geoCalls + Increment(s.next, "geocoding")
        /\ weatherCalls' = weatherCalls + Increment(s.next, "forecast")
    /\ UNCHANGED <<city, geo_url, resp, later, memo, jsonError>>

\* The forecast request ends: lines 127-167.
ForecastResponse(outcomes) ==
    /\ pc = "forecast"
    /\ \E r \in outcomes :
        /\ resp' = <<r>>
        /\ ret' = Returned(ForecastStep(r, jsonError))
    /\ pc' = "returned"
    /\ UNCHANGED <<city, geo_url, res, weather_url, geoCalls, weatherCalls,
                   later, memo, jsonError>>

\* The invocation is over: its locals are gone.  The observer counts it when
\* it is the remembered invocation or a later one.
Finish ==
    /\ pc \in {"returned", "raised"}
    /\ pc' = "idle"
    /\ city' = <<>>
    /\ geo_url' = <<>>
    /\ res' = <<>>
    /\ weather_url' = <<>>
    /\ resp' = <<>>
    /\ ret' = <<>>
    /\ geoCalls' = 0
    /\ weatherCalls' = 0
    /\ later' = IF memo = <<>> THEN later ELSE later + 1
    /\ UNCHANGED <<memo, jsonError>>

\* An observer keeps one finished invocation to compare later ones with.
Remember ==
    /\ pc \in {"returned", "raised"}
    /\ memo = <<>>
    /\ memo' = <<[city |-> city, res |-> res, resp |-> resp, ret |-> ret]>>
    /\ UNCHANGED <<pc, city, geo_url, res, weather_url, resp, ret, geoCalls,
                   weatherCalls, later, jsonError>>

Next ==
    \/ Call(Cities)
    \/ GeoResponse(GeoOutcomes)
    \/ ForecastResponse(ForecastOutcomes)
    \/ Finish

Spec == Init /\ [][Next]_vars

\* The upstream answers drawn when invocations are compared with one another.
SomeGeoOutcomes ==
    {Outcome("timeout", 0, GeoBody("not_json", NoResults)),
     Outcome("ok", 404, OneCandidate),
     Outcome("ok", 200, GeoBody("not_json", NoResults)),
     Outcome("ok", 200, GeoBody("object", Results("list", <<>>))),
     Outcome("ok", 200, OneCandidate),
     Outcome("ok", 200, GeoBody("object", Results("list",
         <<[latitude |-> JFloat(347), longitude |-> JFloat(1397)],
           [latitude |-> Absent, longitude |-> Absent]>>)))}

SomeForecastOutcomes ==
    {Outcome("timeout", 0, ForecastBody("not_json", NoCurrent)),
     Outcome("ok", 500, Sunny),
     Outcome("ok", 200, ForecastBody("not_json", NoCurrent)),
     Outcome("ok", 200, ForecastBody("object", NoCurrent)),
     Outcome("ok", 200, Sunny)}
    \cup {Outcome("ok", 200, ForecastBody("object", Current("object", JInt(-3), JInt(c)))) :
            c \in {16, 95}}

NextCompare ==
    \/ Call(Cities)
    \/ GeoResponse(SomeGeoOutcomes)
    \/ ForecastResponse(SomeForecastOutcomes)
    \/ Finish
    \/ Remember

SpecCompare == Init /\ [][NextCompare]_vars

(***************************************************************************)
(* Properties.                                                             *)
(***************************************************************************)
Ended == pc \in {"returned", "raised"}
HasReturned == ret # <<>> /\ ret[1].kind = "return"
Value == ret[1].value
Fields == DOMAIN Value
GeoAnswer == res[1]
ForecastAnswer == resp[1]
CurrentWeather == ForecastAnswer.body.current_weather
Code == Get(CurrentWeather.weathercode)
Temp == Get(CurrentWeather.temperature)
Known == DOMAIN code_to_weather

\* The forecast answered with a success status and a JSON object whose
\* current_weather is an object.
ForecastArrived ==
    /\ pc = "returned"
    /\ resp # <<>>
    /\ ForecastAnswer.transport = "ok"
    /\ ForecastAnswer.status < 400

ForecastWellFormed ==
    /\ ForecastArrived
    /\ ForecastAnswer.body.kind = "object"
    /\ CurrentWeather.kind = "object"

ForecastMalformed ==
    /\ ForecastArrived
    /\ \/ ForecastAnswer.body.kind # "object"
       \/ CurrentWeather.kind # "object"
       \/ CurrentWeather.temperature.t = "absent"
       \/ CurrentWeather.weathercode.t = "absent"

\* C1: every invocation that ends has returned a dict whose status is
\* "success" or "error"; none ends with an exception leaving the function.
C1_NoExceptionEscapes ==
    Ended => HasReturned /\ Value.status \in {"success", "error"}

GeoSaysNotFound ==
    /\ res # <<>>
    /\ GeoAnswer.transport = "ok"
    /\ \/ GeoAnswer.status >= 400
       \/ /\ GeoAnswer.body.kind = "object"
          /\ \/ GeoAnswer.body.results.kind \in {"absent", "null"}
             \/ /\ GeoAnswer.body.results.kind = "list"
                /\ GeoAnswer.body.results.items = <<>>

\* C2: when the geocoding response has a non-success status, or is a JSON
\* object whose results are absent, null or an empty list, the invocation
\* returns status "error" with the not-found message, which contains the
\* city text, and with no report field.
C2_NotFoundNamesCity ==
    (Ended /\ GeoSaysNotFound) =>
        /\ HasReturned
        /\ Value.status = "error"
        /\ "report" \notin Fields
        /\ "error_message" \in Fields
        /\ Head(Value.error_message) = NotFoundPrefix
        /\ Contains(Value.error_message, city)

C2_Witness ==
    /\ pc = "returned"
    /\ GeoSaysNotFound
    /\ GeoAnswer.status = 200
    /\ Len(city) = MaxCityLen
    /\ Value.error_message = <<NotFoundPrefix>> \o city \o <<NotFoundSuffix>>

\* C3: a forecast response with a success status that cannot be interpreted
\* (not JSON, not an object, current_weather missing or not an object,
\* temperature or weathercode missing) ends in status "error" with the
\* "failed to retrieve weather" message, never in "success".
C3_MalformedForecastIsError ==
    ForecastMalformed =>
        /\ Value.status = "error"
        /\ Head(Value.error_message) = RetrieveFailedPrefix

ForecastTransportFailed ==
    /\ pc = "returned"
    /\ resp # <<>>
    /\ \/ ForecastAnswer.transport \in {"timeout", "connection_error"}
       \/ ForecastAnswer.status >= 400

\* C4: when the forecast request times out, cannot connect or answers with a
\* non-success status, the invocation returns status "error" with the
\* "forecast request failed" message, not the not-found message and not the
\* "failed to retrieve weather" message.
C4_TransportFailureMessage ==
    ForecastTransportFailed =>
        /\ Value.status = "error"
        /\ "report" \notin Fields
        /\ Head(Value.error_message) = RequestFailedPrefix
        /\ Head(Value.error_message) \notin {NotFoundPrefix, RetrieveFailedPrefix}

C4_Witness ==
    /\ ForecastTransportFailed
    /\ ForecastAnswer.transport = "timeout"
    /\ Value.error_message = <<RequestFailedPrefix, "Timeout">>

\* C5: a returned result has exactly one shape: status "success" with a
\* report and no error_message, or status "error" with an error_message and
\* no report.
C5_ExactlyOneShape ==
    HasReturned =>
        /\ Value.status \in {"success", "error"}
        /\ Fields \subseteq {"status", "report", "error_message"}
        /\ (Value.status = "success") <=> ("report" \in Fields)
        /\ (Value.status = "error") <=> ("error_message" \in Fields)
        /\ ("report" \in Fields) # ("error_message" \in Fields)

C5_Witness ==
    /\ HasReturned
    /\ resp # <<>>
    /\ Value.status = "error"
    /\ Fields = {"status", "error_message"}

UnknownCode == ForecastWellFormed /\ Code.t = "int" /\ Code.v \notin Known

\* C6: an integer weathercode that is not a key of the table gives status
\* "success" and a report whose description is the fallback text around the
\* digits of the code (16 and 100 among them), never an error.
C6_UnknownCodeFallsBack ==
    UnknownCode =>
        /\ Value.status = "success"
        /\ Value.report = <<ReportPrefix, FallbackPrefix>> \o PyStr(Code)
                          \o <<FallbackSuffix, ReportMiddle>> \o PyStr(Temp)
                          \o <<ReportSuffix>>
        /\ Code.v = 16 =>
             SubSeq(Value.report, 2, 5) = <<FallbackPrefix, "1", "6", FallbackSuffix>>
        /\ Code.v = 100 =>
             SubSeq(Value.report, 2, 6) = <<FallbackPrefix, "1", "0", "0", FallbackSuffix>>

C6_Witness ==
    /\ UnknownCode
    /\ Code.v = 100
    /\ Value.status = "success"

KnownCode == ForecastWellFormed /\ Code.t = "int" /\ Code.v \in Known

\* C7: an integer weathercode that is a key of the table gives a report whose
\* description is the table's entry for that code (0 is clear sky, 95 is
\* thunderstorm), not the fallback text.
C7_KnownCodeUsesTableEntry ==
    KnownCode =>
        /\ Value.status = "success"
        /\ Value.report = <<ReportPrefix, code_to_weather[Code.v], ReportMiddle>>
                          \o PyStr(Temp) \o <<ReportSuffix>>
        /\ Code.v = 0 => Value.report[2] = "clear sky"
        /\ Code.v = 95 => Value.report[2] = "thunderstorm"

C7_Witness ==
    /\ KnownCode
    /\ Code.v = 95
    /\ Temp = JFloat(215)
    /\ Value.report = <<ReportPrefix, "thunderstorm", ReportMiddle,
                        "2", "1", ".", "5", ReportSuffix>>

SameInputsAsRemembered ==
    /\ memo # <<>>
    /\ Ended
    /\ city = memo[1].city
    /\ res = memo[1].res
    /\ resp = memo[1].resp

C9_ForecastOnlyAfterGeocoding ==
    /\ geoCalls <= 1
    /\ weatherCalls <= 1
    /\ pc = "geocoding" => weatherCalls = 0 /\ res = <<>>
    /\ weatherCalls > 0 =>
         /\ res # <<>>
         /\ GeoAnswer.transport = "ok"
         /\ GeoAnswer.status < 400
         /\ GeoAnswer.body.kind = "object"
         /\ GeoAnswer.body.results.kind = "list"
         /\ Len(GeoAnswer.body.results.items) > 0
    /\ (Ended /\ GeoSaysNotFound) => weatherCalls = 0 /\ resp = <<>>

C9_Witness ==
    /\ pc = "returned"
    /\ geoCalls = 1
    /\ weatherCalls = 1
    /\ resp # <<>>
    /\ Len(GeoAnswer.body.results.items) = 1

Items == GeoAnswer.body.results.items

\* C10: the latitude and longitude written into the forecast request are
\* those of the first candidate of the geocoding response, whatever follows it.
C10_FirstCandidateCoordinates ==
    weather_url # <<>> =>
        /\ Len(Items) > 0
        /\ weather_url = <<"https://api.open-meteo.com/v1/forecast?", "latitude=">>
                         \o PyStr(Items[1].latitude) \o <<"&longitude=">>
                         \o PyStr(Items[1].longitude)
                         \o <<"&current_weather=true&timezone=Asia/Tokyo">>
        /\ Items[1].latitude = JFloat(347) =>
             SubSeq(weather_url, 3, 6) = <<"3", "4", ".", "7">>

C10_Witness ==
    /\ weather_url # <<>>
    /\ Len(Items) = 2
    /\ Items[1].latitude = JFloat(347)
    /\ Items[2].latitude = JFloat(357)
    /\ SubSeq(weather_url, 3, 6) = <<"3", "4", ".", "7">>

====
